---- MODULE Spec2Model ----
(***************************************************************************)
(* Device agent control loop of the AntiTheft repository                   *)
(* (src/device_agent/agent.py), the lock-screen process it spawns          *)
(* (src/device_agent/prey_lock_screen.py) and the backend routes the two   *)
(* talk to (src/backend/routes/device_routes.py, wipe_routes.py).          *)
(*                                                                         *)
(* Every handler of the code is one action.  A handler's inputs (transport *)
(* success, sensor results, what a spawned process did during a sleep) are *)
(* drawn with \E.  The handlers are sequential Python, so each is written  *)
(* as a chain of steps over a record `a` that holds the fields the handler *)
(* reads and writes; the action assigns the final record to the variables. *)
(* Threads and processes the agent starts (alarm loop, wipe worker, lock   *)
(* screen) take their own steps.                                           *)
(***************************************************************************)
EXTENDS Integers, Sequences, FiniteSets, Bags, TLC

\* ------------------------------------------------------------------ bounds
MaxProcs == 2          \* lock-screen processes alive at once in the model
MaxAlarmThreads == 2   \* alarm loop threads alive at once in the model
MaxWorkers == 2        \* execute_wipe runs alive at once in the model
MaxOps == 1            \* WipeOperation rows the backend holds in the model
MaxJobLen == 2         \* paths of one validated path list
MaxFail == 1           \* entries of a directory walk that cannot be deleted

\* ------------------------------------------------------------- vocabulary
NoFile == [password |-> "", message |-> "", present |-> FALSE]
NoLog == [password |-> "", message |-> "", present |-> FALSE]
DefaultPassword == "antitheft2024"
\* the lock commands a dashboard user can issue (password, optional message)
LockCommands == { [password |-> "s3cret", message |-> "call owner"] }
\* what a request to the backend may do: TRUE = answered, FALSE = lost
AnyNet == BOOLEAN
Reachable == {TRUE}

VARIABLES
    \* backend (device_routes.py): Device.status, latest lock ActivityLog,
    \* WiFi geofence configuration
    dev_status, lock_log, wifi_geofence,
    \* backend (wipe_routes.py): the WipeOperation rows, oldest first
    wipe_ops,
    \* DeviceAgent fields (agent.py:96-109)
    status, last_lock_status, alarm_running,
    \* threads and position of the control thread in run()
    alarm_threads, agent_pc,
    \* the bag of live execute_wipe runs, and the files on volume D:
    workers, fs,
    \* lock_state.json, and the bag of live lock-screen processes: each
    \* [st, pw, msg, port], port = it holds the listener on port 12345
    lock_state_file, procs,
    \* history: dispatches of the action of the current desired status since
    \* that status last changed; events of the last step; what the last step
    \* of the wipe executor or of the path validation did
    disp_count, ev, wipe_ev,
    \* DeviceAgent fields of the location resolver: the attribute
    \* google_maps_api_key ("unset" = never assigned, "none", "set"), the
    \* cached fix, whether a satellite attempt was made before; and what the
    \* last step did with the resolver (history)
    google_maps_api_key, last_known_location, last_gps_attempt_time, loc_ev,
    \* history: what the last step did with the session secret and with
    \* lock_state.json
    lock_ev

vars == << dev_status, lock_log, wifi_geofence, wipe_ops, status,
           last_lock_status, alarm_running, alarm_threads, agent_pc, workers,
           fs, lock_state_file, procs, disp_count, ev, wipe_ev,
           google_maps_api_key, last_known_location, last_gps_attempt_time,
           loc_ev, lock_ev >>

\* --------------------------------------------------------------- helpers
Min(x, y) == IF x < y THEN x ELSE y

\* the command kind a desired status stands for (agent.py:1620-1625)
KindOf(s) ==
    IF s = "locked" \/ s = "lock" THEN "lock"
    ELSE IF s = "alarm" THEN "alarm"
    ELSE IF s = "wiped" \/ s = "wipe" THEN "wipe"
    ELSE "none"

\* a lock-screen process as spawned by Popen
NewProc(pw, msg) == [st |-> "spawned", pw |-> pw, msg |-> msg, port |-> FALSE]

\* ------------------------------------------------------------ wipe paths
\* A path is the sequence of its characters.  The paths a wipe request may name:

\* 'D:\'
VolumeRoot == << "D", ":", "\\" >>

\* 'D:\Data\a.txt'
DataFileA ==
    << "D", ":", "\\", "D", "a", "t", "a", "\\", "a", ".", "t", "x", "t" >>

\* 'd:/data/b.txt'
DataFileB ==
    << "d", ":", "/", "d", "a", "t", "a", "/", "b", ".", "t", "x", "t" >>

\* 'C:\Users'
OtherVolume == << "C", ":", "\\", "U", "s", "e", "r", "s" >>

\* 'D:\Windows'
WindowsDir == << "D", ":", "\\", "W", "i", "n", "d", "o", "w", "s" >>

\* 'd:/windows/system32'
System32Dir ==
    << "d", ":", "/", "w", "i", "n", "d", "o", "w", "s", "/", "s", "y", "s",
       "t", "e", "m", "3", "2" >>

\* 'D:\WindowsOld'
WindowsOldDir ==
    << "D", ":", "\\", "W", "i", "n", "d", "o", "w", "s", "O", "l", "d" >>

\* 'D:\Recycler\x'
RecyclerFile ==
    << "D", ":", "\\", "R", "e", "c", "y", "c", "l", "e", "r", "\\", "x" >>

\* 'D:'
BareDrive == << "D", ":" >>

\* 'D:\Program Files'
ProgramFilesDir ==
    << "D", ":", "\\", "P", "r", "o", "g", "r", "a", "m", " ", "F", "i", "l",
       "e", "s" >>

PathPool ==
    { VolumeRoot, DataFileA, DataFileB, OtherVolume, WindowsDir, System32Dir,
      WindowsOldDir, RecyclerFile, BareDrive, ProgramFilesDir }

\* the entries of blocked_paths (agent.py:2168-2175)

\* 'D:\WINDOWS'
BlockedWindows == << "D", ":", "\\", "W", "I", "N", "D", "O", "W", "S" >>

\* 'D:\PROGRAM FILES'
BlockedProgramFiles ==
    << "D", ":", "\\", "P", "R", "O", "G", "R", "A", "M", " ", "F", "I", "L",
       "E", "S" >>

\* 'D:\PROGRAM FILES (X86)'
BlockedProgramFilesX86 ==
    << "D", ":", "\\", "P", "R", "O", "G", "R", "A", "M", " ", "F", "I", "L",
       "E", "S", " ", "(", "X", "8", "6", ")" >>

\* 'D:\SYSTEM VOLUME INFORMATION'
BlockedSystemVolume ==
    << "D", ":", "\\", "S", "Y", "S", "T", "E", "M", " ", "V", "O", "L", "U",
       "M", "E", " ", "I", "N", "F", "O", "R", "M", "A", "T", "I", "O", "N" >>

\* 'D:\$RECYCLE.BIN'
BlockedRecycleBin ==
    << "D", ":", "\\", "$", "R", "E", "C", "Y", "C", "L", "E", ".", "B", "I",
       "N" >>

\* 'D:\RECYCLER'
BlockedRecycler ==
    << "D", ":", "\\", "R", "E", "C", "Y", "C", "L", "E", "R" >>

blocked_paths ==
    { BlockedWindows, BlockedProgramFiles, BlockedProgramFilesX86,
      BlockedSystemVolume, BlockedRecycleBin, BlockedRecycler }

\* the entries of BLOCKED_PATHS that start with D:\ (wipe_routes.py:25-40), as
\* is_path_blocked compares them: upper-cased.  The other entries (C:\..., /usr,
\* ...) never are a prefix of a path that starts with D:\.
BLOCKED_PATHS ==
    { BlockedWindows, BlockedProgramFiles, BlockedProgramFilesX86,
      BlockedSystemVolume }

LowerCase ==
    << "a", "b", "c", "d", "e", "f", "g", "h", "i", "j", "k", "l", "m",
       "n", "o", "p", "q", "r", "s", "t", "u", "v", "w", "x", "y", "z" >>

UpperCase ==
    << "A", "B", "C", "D", "E", "F", "G", "H", "I", "J", "K", "L", "M",
       "N", "O", "P", "Q", "R", "S", "T", "U", "V", "W", "X", "Y", "Z" >>

\* str.upper() on one character
Upper(c) ==
    IF \E i \in DOMAIN LowerCase : LowerCase[i] = c
    THEN UpperCase[CHOOSE i \in DOMAIN LowerCase : LowerCase[i] = c]
    ELSE c

\* path.replace('/', '\\')
ReplaceSlash(path) ==
    [i \in 1..Len(path) |-> IF path[i] = "/" THEN "\\" ELSE path[i]]

\* path.replace('/', '\\').upper() (agent.py:2161)
Normalize(path) == [i \in 1..Len(path) |-> Upper(ReplaceSlash(path)[i])]

\* str.startswith
StartsWith(s, prefix) ==
    Len(s) >= Len(prefix) /\ SubSeq(s, 1, Len(prefix)) = prefix

\* DeviceAgent._is_path_valid (agent.py:2159-2181)
IsPathValid(path) ==
    LET path_normalized == Normalize(path)
    IN /\ StartsWith(path_normalized, VolumeRoot)
       /\ ~\E blocked \in blocked_paths : StartsWith(path_normalized, blocked)

\* is_path_blocked (wipe_routes.py:45-52)
IsPathBlocked(folder_path) ==
    \E blocked \in BLOCKED_PATHS : StartsWith(Normalize(folder_path), blocked)

\* is_path_valid of the backend (wipe_routes.py:54-63)
BackendIsPathValid(path) ==
    /\ StartsWith(Normalize(path), VolumeRoot)
    /\ ~IsPathBlocked(ReplaceSlash(path))

\* a validation that finds every path valid
InvalidPathsNone(paths) == << >>

\* invalid_paths of a validation loop (agent.py:2294-2297)
InvalidPaths(paths) == SelectSeq(paths, LAMBDA p : ~IsPathValid(p))

\* ------------------------------------------------------- the handler record

\* a location fix: its position, the source that gave it and the accuracy
\* the source reported (the dict of the code holds lat and lng only; source
\* and accuracy are kept as history)
Fix(pos, src, acc) == [pos |-> pos, src |-> src, acc |-> acc]

\* None
NoFix == Fix(0, "none", 0)

\* what a step did with the resolver: nothing
NoLocEv ==
    [kind |-> "none", called |-> FALSE, raised |-> FALSE, returned |-> NoFix,
     from_cache |-> FALSE, cache_before |-> NoFix, gps_attempts |-> 0,
     coarse_seen |-> FALSE, gps_accepted |-> FALSE, wifi_queried |-> FALSE,
     wifi_fix |-> NoFix, ips |-> << >>, ip_queried |-> 0, ip_fix |-> NoFix,
     forced |-> FALSE, pushed |-> FALSE, payload |-> NoFix, done |-> FALSE,
     recent |-> FALSE, gps_timeouts |-> << >>, wifi_queries |-> 0,
     force_timeouts |-> << >>]

\* what a step did with the session secret: who acted ("agent" or
\* "lock_process"), the secret it handled, the argument list of a Popen, the
\* files it wrote the secret to in cleartext, and its operations on
\* lock_state.json and on the network in the order it made them, each with
\* whether lock_state.json existed afterwards; and, for the texts of a lock
\* request, the message, the log description and the extracted password
NoLockEv ==
    [actor |-> "none", password |-> "", argv |-> << >>, wrote |-> {},
     steps |-> << >>, message |-> << >>, description |-> << >>,
     extracted |-> << >>]

NoWipeEv ==
    [kind |-> "none", op |-> 0, paths |-> << >>, status |-> "", progress |-> 0,
     files_deleted |-> 0, total_files |-> 0, error |-> << >>, removed |-> {},
     prev |-> "", since |-> 0, ended |-> FALSE, ops |-> << >>]

\* the record a handler works on: the variables, the history of this step
\* (nothing yet), and whether the step left the bounds of the model
AgentView ==
    [ dev_status |-> dev_status, lock_log |-> lock_log,
      wifi_geofence |-> wifi_geofence, wipe_ops |-> wipe_ops,
      status |-> status, last_lock_status |-> last_lock_status,
      alarm_running |-> alarm_running, alarm_threads |-> alarm_threads,
      agent_pc |-> agent_pc, workers |-> workers, fs |-> fs,
      lock_state_file |-> lock_state_file, procs |-> procs,
      disp_count |-> disp_count, ev |-> {}, wipe_ev |-> NoWipeEv,
      google_maps_api_key |-> google_maps_api_key,
      last_known_location |-> last_known_location,
      last_gps_attempt_time |-> last_gps_attempt_time, loc_ev |-> NoLocEv,
      lock_ev |-> NoLockEv, overflow |-> FALSE ]

\* the variables a handler leaves with
Commit(a) ==
    /\ ~a.overflow
    /\ dev_status' = a.dev_status
    /\ lock_log' = a.lock_log
    /\ wifi_geofence' = a.wifi_geofence
    /\ wipe_ops' = a.wipe_ops
    /\ status' = a.status
    /\ last_lock_status' = a.last_lock_status
    /\ alarm_running' = a.alarm_running
    /\ alarm_threads' = a.alarm_threads
    /\ agent_pc' = a.agent_pc
    /\ workers' = a.workers
    /\ fs' = a.fs
    /\ lock_state_file' = a.lock_state_file
    /\ procs' = a.procs
    /\ disp_count' = a.disp_count
    /\ ev' = a.ev
    /\ wipe_ev' = a.wipe_ev
    /\ google_maps_api_key' = a.google_maps_api_key
    /\ last_known_location' = a.last_known_location
    /\ last_gps_attempt_time' = a.last_gps_attempt_time
    /\ loc_ev' = a.loc_ev
    /\ lock_ev' = a.lock_ev

\* a write of Device.status; the history counter restarts when the value changes
SetDev(a, v) ==
    IF v = a.dev_status THEN a
    ELSE [a EXCEPT !.dev_status = v, !.disp_count = 0]

AddEv(a, e) == [a EXCEPT !.ev = @ \cup {e}]

\* the except clauses of the try block that wraps the whole body of a step
\* of run(): report_status (agent.py:1441-1446) and check_for_config_update
\* (agent.py:1492-1497) name RequestException and Exception,
\* check_for_commands (agent.py:1917-1918) names Exception
ExceptNothing(handler) == {}

ExceptClauses(handler) ==
    IF handler = "check_for_commands" THEN {"Exception"}
    ELSE {"RequestException", "Exception"}

\* the exceptions a step raises in the model are all subclasses of Exception
IsInstance(exc, class) == class = "Exception" \/ exc = class

\* run() after a step (agent.py:2592-2630): the step returned, or logged
\* exc and returned, and the loop is at pc; an exception that leaves the
\* step ends the loop at `raise` (agent.py:2628-2630)
AfterStep(a, handler, exc, pc) ==
    IF exc = "none" THEN [a EXCEPT !.agent_pc = pc]
    ELSE IF \E c \in ExceptClauses(handler) : IsInstance(exc, c)
    THEN [AddEv(a, "failed") EXCEPT !.agent_pc = pc]
    ELSE [AddEv(a, "failed") EXCEPT !.agent_pc = "fatal"]

\* the step handles secret pw as `actor`
Handles(a, actor, pw) ==
    [a EXCEPT !.lock_ev.actor = actor, !.lock_ev.password = pw]

\* the step writes text to a file (a log line, or the content of the file)
Wrote(a, file, text) ==
    [a EXCEPT !.lock_ev.wrote = @ \cup {[file |-> file, text |-> text]}]

\* the step has made operation op on lock_state.json or on the network
Did(a, op) ==
    [a EXCEPT !.lock_ev.steps =
        Append(@, [op |-> op, artifact |-> a.lock_state_file.present])]

\* ------------------------------------------------------ backend, agent side

\* update_location (device_routes.py:821-827, 1040-1044): Device.status
\* := the incoming status, then := 'alarm' when the payload reports a WiFi
\* geofence breach
UpdateLocation(a, incoming, breach) ==
    IF breach THEN SetDev(a, "alarm") ELSE SetDev(a, incoming)

\* get_pending_wipe (wipe_routes.py:535-543): the latest row that is pending
\* or in_progress, 0 when there is none
PendingWipe(ops) ==
    LET live == { i \in DOMAIN ops : ops[i].status \in {"pending", "in_progress"} }
    IN IF live = {} THEN 0 ELSE CHOOSE i \in live : \A j \in live : j <= i

\* update_wipe_status (wipe_routes.py:456-518)
UpdateWipeStatus(a, op, st) ==
    LET a1 == [a EXCEPT !.wipe_ops[op].status = st]
    IN IF st \in {"completed", "failed"} /\ a1.dev_status = "wiping"
       THEN SetDev(a1, "active")
       ELSE a1

\* connect_ex(('localhost', 12345)) == 0
PortAccepts == \E r \in BagToSet(procs) : r.port

\* ------------------------------------------------ DeviceAgent: the handlers

\* check_for_commands, WiFi geofence part (agent.py:1552-1614).  `breach` is
\* breach_detected; `loc` whether get_location returned a fix; `post_ok`
\* whether the POST reached the backend.
GeofenceStep(a, breach, loc, post_ok) ==
    IF a.wifi_geofence /\ breach /\ a.status # "alarm"
    THEN LET a1 == [a EXCEPT !.status = "alarm"]
         IN IF loc /\ post_ok THEN UpdateLocation(a1, "alarm", TRUE) ELSE a1
    ELSE a

\* command selection (agent.py:1616-1625); `fetched` is the status of the GET
CommandOf(fetched, local) ==
    IF fetched # local THEN KindOf(fetched) ELSE "none"

\* a dispatch through execute_command (agent.py:1920-1934)
Dispatch(a, kind) ==
    LET a1 == AddEv(a, "exec_" \o kind)
    IN IF KindOf(a1.dev_status) = kind
       THEN [a1 EXCEPT !.disp_count = Min(2, @ + 1)]
       ELSE a1

\* cmd of execute_lock (agent.py:1991-1993): the script, the password, and
\* the message when there is one (sys.executable is left out)
LockCmd(pw, msg) ==
    << "prey_lock_screen.py", pw >> \o (IF msg # "" THEN << msg >> ELSE << >>)

\* subprocess.Popen of the lock script (agent.py:2016-2033, 2075-2080); the
\* command is logged after it (agent.py:2025)
SpawnLockProcess(a, pw, msg) ==
    IF BagCardinality(a.procs) >= MaxProcs
    THEN [a EXCEPT !.overflow = TRUE]
    ELSE [a EXCEPT !.procs = @ (+) SetToBag({NewProc(pw, msg)}),
                   !.lock_ev.argv = LockCmd(pw, msg)]

\* execute_lock (agent.py:1936-2118).  The password is logged and written
\* to lock_password_debug.txt on entry (agent.py:1948-1963).  o1 is what the first Popen did by the
\* time of process.poll() ("alive", "exited", "error" = Popen raised), o2 the
\* same for the retry.
ExecuteLock(a, pw, msg, o1, o2) ==
    LET a0 == Wrote(Wrote(a, "agent.log", pw), "lock_password_debug.txt", pw)
    IN IF PortAccepts
       THEN a0
       ELSE IF o1 = "alive" THEN SpawnLockProcess(a0, pw, msg)
       ELSE IF o1 = "exited" /\ o2 = "alive" THEN SpawnLockProcess(a0, pw, msg)
       ELSE AddEv(a0, "lock_failed")

\* execute_alarm (agent.py:2120-2157): starts the alarm loop thread
ExecuteAlarm(a) ==
    IF a.alarm_running THEN a
    ELSE IF a.alarm_threads >= MaxAlarmThreads
    THEN [a EXCEPT !.overflow = TRUE]
    ELSE [a EXCEPT !.alarm_running = TRUE, !.alarm_threads = @ + 1]

\* an execute_wipe run at its first statement; inline = called in the
\* control thread (execute_command), not as a thread of its own; stale
\* (history) counts the files the run deleted while the local status, the
\* desired status of the last command check, was not a wipe status; sent
\* and reported (history) are the status of the last report of the run and
\* the files_deleted of its last in_progress report
NewWorker(op, paths, inline) ==
    [pc |-> "start", op |-> op, paths |-> paths, idx |-> 0,
     items_deleted |-> 0, total_items |-> 0, errors |-> << >>,
     inline |-> inline, stale |-> 0, sent |-> "", reported |-> 0]

StartWorker(a, op, inline) ==
    IF BagCardinality(a.workers) >= MaxWorkers
    THEN [a EXCEPT !.overflow = TRUE]
    ELSE [a EXCEPT !.workers =
              @ (+) SetToBag({NewWorker(op, a.wipe_ops[op].paths, inline)})]

\* execute_wipe() without arguments (agent.py:2270-2291): it asks
\* get_pending_wipe itself, returns when the GET fails or nothing is
\* pending, else runs that operation in the control thread, whatever the
\* status of the row
ExecuteWipeInline(a, get_ok) ==
    IF ~get_ok THEN AddEv(a, "failed")
    ELSE IF PendingWipe(a.wipe_ops) = 0
    THEN a
    ELSE [StartWorker(a, PendingWipe(a.wipe_ops), TRUE)
              EXCEPT !.agent_pc = "execute_wipe"]

\* password and message of the latest lock log (agent.py:1661-1729);
\* logs_ok is whether GET get_activity_logs answered 200
LockPassword(logs_ok) ==
    IF logs_ok /\ lock_log.present THEN lock_log.password ELSE DefaultPassword

LockMessage(logs_ok) ==
    IF logs_ok /\ lock_log.present THEN lock_log.message ELSE ""

\* the lock-screen liveness test of the command branch (agent.py:1631-1647)
LockScreenRunning(a) == PortAccepts \/ a.lock_state_file.present

\* check_for_commands, the save of the lock state (agent.py:1730-1770): an
\* old lock_state.json is deleted, the new one is written, and the password
\* is logged
SaveLockState(a, pw, msg) ==
    LET a1 == IF a.lock_state_file.present
              THEN Did([a EXCEPT !.lock_state_file = NoFile], "unlink")
              ELSE a
        a2 == Did([a1 EXCEPT !.lock_state_file =
                      [password |-> pw, message |-> msg, present |-> TRUE]],
                  "write")
    IN Wrote(Wrote(a2, "lock_state.json", pw), "agent.log", pw)

\* check_for_commands, command == 'lock' (agent.py:1630-1780).  The block
\* from "Get additional command details" on is at the indentation of the
\* `if lock_screen_running:` statement, so it runs in both of its branches.
LockCommandStep(a, fetched, logs_ok, o1, o2) ==
    LET running == LockScreenRunning(a)
        a1 == IF running
              THEN AddEv([a EXCEPT !.status = fetched,
                                   !.last_lock_status = "locked"], "dup_lock")
              ELSE a
        pw == LockPassword(logs_ok)
        msg == LockMessage(logs_ok)
        a2 == SaveLockState(Handles(a1, "agent", pw), pw, msg)
        a3 == ExecuteLock(Dispatch(a2, "lock"), pw, msg, o1, o2)
    IN [a3 EXCEPT !.status = fetched, !.last_lock_status = "locked"]

\* the statements after execute_command(command) (agent.py:1786-1787)
AfterCommand(a, fetched) ==
    [a EXCEPT !.status = fetched, !.last_lock_status = "none"]

\* the first test of `while self.alarm_running and self.status == 'alarm'`
\* by a thread that execute_alarm has just started (agent.py:2139, 2145);
\* a thread that fails it leaves through the finally clause
AlarmFirstTest(a) ==
    IF a.alarm_running /\ a.status = "alarm" THEN a
    ELSE [a EXCEPT !.alarm_threads = @ - 1, !.alarm_running = FALSE]

\* check_for_commands, command in {'alarm', 'wipe'} (agent.py:1782-1787);
\* an execute_wipe that runs inline holds the handler at execute_command.
\* execute_command returns once Thread.start() has returned, and
\* `self.status = status` follows it: `early` is the new alarm thread
\* making its first loop test before that assignment.
OtherCommandStep(a, fetched, kind, get_ok, early) ==
    LET a1 == Dispatch(a, kind)
        a2 == IF kind = "alarm" THEN ExecuteAlarm(a1)
              ELSE ExecuteWipeInline(a1, get_ok)
        a3 == IF early /\ a2.alarm_threads > a1.alarm_threads
              THEN AlarmFirstTest(a2) ELSE a2
    IN IF a3.agent_pc = "execute_wipe" THEN a3 ELSE AfterCommand(a3, fetched)

\* a liveness test of the unlock detection that asks the port only
IsLockRunningPortOnly(a) == PortAccepts

\* the liveness test of the unlock detection (agent.py:1796-1810)
IsLockRunning(a) == a.lock_state_file.present \/ PortAccepts

\* the unlock test of the no-command branch (agent.py:1791-1813)
UnlockDetected(a) ==
    a.status = "locked" /\ a.last_lock_status = "locked" /\ ~IsLockRunning(a)

\* check_for_commands, unlock detection (agent.py:1789-1852): the local
\* status becomes 'active'; get_location is called inside the try block
\* and the POST of 'active' follows it, with or without a location.
\* `raised` is get_location leaving with an exception, which the except
\* clause of agent.py:1849 swallows.
UnlockDetectStep(a, raised, post_ok) ==
    IF UnlockDetected(a)
    THEN LET a1 == AddEv([a EXCEPT !.status = "active",
                                   !.last_lock_status = "none"],
                         "unlock_declared")
             a2 == AddEv(a1, "unlock_push")
         IN IF raised THEN a1
            ELSE IF post_ok THEN UpdateLocation(a2, "active", FALSE) ELSE a2
    ELSE a

\* a status sync that ends the lock screen when the desired status is not
\* 'locked'
StatusSyncStepCancels(a, fetched) ==
    [a EXCEPT !.status = fetched,
              !.procs = IF fetched # "locked" THEN EmptyBag ELSE @]

\* check_for_commands, the rest of the no-command branch (agent.py:1854-1867)
StatusSyncStep(a, fetched) ==
    LET a1 == IF fetched # a.status THEN [a EXCEPT !.status = fetched] ELSE a
        a2 == IF a1.alarm_running /\ a1.status # "alarm"
              THEN [a1 EXCEPT !.alarm_running = FALSE] ELSE a1
    IN IF fetched = "active" /\ a2.last_lock_status = "locked"
       THEN [a2 EXCEPT !.last_lock_status = "none", !.status = "active"]
       ELSE a2

\* check_for_commands, the poll for a pending wipe (agent.py:1869-1893):
\* a row that is still 'pending' gets a worker thread
WipePollStep(a, poll_ok) ==
    LET op == PendingWipe(a.wipe_ops)
    IN IF poll_ok /\ op # 0 /\ a.wipe_ops[op].status = "pending"
       THEN StartWorker(a, op, FALSE)
       ELSE a

\* the end of check_for_commands: the wipe poll, whose failure its own
\* except clause logs (agent.py:1891-1893), and back to run()
EndOfCheck(a, poll_ok) ==
    IF a.agent_pc = "execute_wipe" THEN a
    ELSE [WipePollStep(IF poll_ok THEN a ELSE AddEv(a, "failed"), poll_ok)
              EXCEPT !.agent_pc = "idle"]

\* ------------------------------------ the password in the activity log
\* A text is the sequence of its characters.

\* 'Remote lock action triggered by user' (device_routes.py:1252)
DescriptionHead ==
    << "R", "e", "m", "o", "t", "e", " ", "l", "o", "c", "k", " ", "a",
       "c", "t", "i", "o", "n", " ", "t", "r", "i", "g", "g", "e", "r",
       "e", "d", " ", "b", "y", " ", "u", "s", "e", "r" >>

\* '. password: '
PasswordLabel ==
    << ".", " ", "p", "a", "s", "s", "w", "o", "r", "d", ":", " " >>

\* ', Message: '
MessageLabel ==
    << ",", " ", "M", "e", "s", "s", "a", "g", "e", ":", " " >>

\* 'password:'
PasswordMarker ==
    << "p", "a", "s", "s", "w", "o", "r", "d", ":" >>

\* 'antitheft2024'
DefaultPasswordText ==
    << "a", "n", "t", "i", "t", "h", "e", "f", "t", "2", "0", "2",
       "4" >>

\* the characters rstrip(',. ;:') removes (agent.py:1709)
TrailingJunk == { ",", ".", " ", ";", ":" }

\* the bounds of the passwords and the characters they are made of
MaxPwLen == 3

PwAlphabet == { "a", "b", ",", " ", "." }

\* the passwords a dashboard user may set
PasswordPool == UNION { [1..n -> PwAlphabet] : n \in 1..MaxPwLen }

\* the messages: none, 'hi', 'a, b'
MessagePool == { << >>, << "h", "i" >>, << "a", ",", " ", "b" >> }

\* str.lstrip()
RECURSIVE LStrip(_)
LStrip(s) ==
    IF s # << >> /\ Head(s) = " " THEN LStrip(Tail(s)) ELSE s

\* str.rstrip(chars)
RECURSIVE RStripChars(_, _)
RStripChars(s, chars) ==
    IF s # << >> /\ s[Len(s)] \in chars
    THEN RStripChars(SubSeq(s, 1, Len(s) - 1), chars)
    ELSE s

\* str.strip()
Strip(s) == RStripChars(LStrip(s), {" "})

\* str.find(sub) + 1: the position of the first occurrence, 0 when none
IndexOf(s, sub) ==
    LET hits == { i \in 1..(Len(s) - Len(sub) + 1) :
                      SubSeq(s, i, i + Len(sub) - 1) = sub }
    IN IF hits = {} THEN 0 ELSE CHOOSE i \in hits : \A j \in hits : i <= j

\* s.split(sep)[0]
BeforeFirst(s, sep) ==
    IF IndexOf(s, sep) = 0 THEN s ELSE SubSeq(s, 1, IndexOf(s, sep) - 1)

\* s.split(sep)[1], for an s that contains sep
SecondPart(s, sep) ==
    BeforeFirst(SubSeq(s, IndexOf(s, sep) + Len(sep), Len(s)), sep)

\* s.split()[0], for an s with a character that is no blank
FirstWord(s) == BeforeFirst(LStrip(s), << " " >>)

\* trigger_action, the description of a lock log (device_routes.py:1251-1261)
Description(password, message) ==
    DescriptionHead \o PasswordLabel \o Strip(password)
        \o (IF message # << >> THEN MessageLabel \o message ELSE << >>)

\* password_part.split(',')[0].strip() or password_part.split()[0]
\* (agent.py:1697-1705)
ExtractedPart(password_part) ==
    IF IndexOf(password_part, << "," >>) # 0
    THEN Strip(BeforeFirst(password_part, << "," >>))
    ELSE IF password_part # << >> THEN FirstWord(password_part) ELSE << >>

\* check_for_commands, the password of a lock description
\* (agent.py:1689-1729): None becomes the default password
ExtractPassword(desc) ==
    LET password_part == Strip(SecondPart(desc, PasswordMarker))
        lock_password == Strip(RStripChars(ExtractedPart(password_part),
                                           TrailingJunk))
    IN IF IndexOf(desc, PasswordMarker) = 0 \/ lock_password = << >>
       THEN DefaultPasswordText
       ELSE lock_password

\* a lock request as the dashboard sends it
LockRequest(password, message) ==
    [NoLockEv EXCEPT !.actor = "user", !.password = password,
                     !.message = message]

\* trigger_action on the request: the password as embedded, and the log
TriggerLockText ==
    /\ lock_ev.actor = "user"
    /\ Commit([AgentView EXCEPT !.lock_ev =
           [lock_ev EXCEPT !.actor = "backend",
                           !.password = Strip(lock_ev.password),
                           !.description =
                               Description(lock_ev.password, lock_ev.message)]])

\* check_for_commands on the latest lock log: the extraction
ExtractFromLog ==
    /\ lock_ev.actor = "backend"
    /\ Commit([AgentView EXCEPT !.lock_ev =
           [lock_ev EXCEPT !.actor = "agent",
                           !.extracted = ExtractPassword(lock_ev.description)]])

\* ------------------------------------------------------ location resolver
\* Positions are metres along a line through the centre of the known-bad
\* region (3.14, 101.69), which is position 0; the Seremban point
\* (2.67, 101.99) lies 62 km from it.

KlCentre == 0
SerembanCentre == 62000
KlRadius == 20000          \* distance_from_kl < 20000: in the bad region
SerembanRadius == 5000
JumpLimit == 100000        \* distance_from_last > 100000: rejected
UnchangedRadius == 50
MaxAccuracy == 10000       \* accuracy > 0 and accuracy < 10000
NormalStrategies == 4      \* quick, medium, long, extended
RecentStrategies == 3      \* quick, medium, long
IpServices == 3

\* timeout_strategies of get_location (agent.py:492-507) and of
\* _force_gps_location (agent.py:861): max_wait in seconds
NormalTimeouts == <<15, 30, 60, 90>>

RecentTimeoutsFour == <<30, 60, 90, 90>>

RecentTimeouts == <<30, 60, 90>>

ForceTimeouts == <<90, 150, 180>>

\* timeout=max_wait + 5 of subprocess.run (agent.py:583-588, 937-942), for
\* the first n strategies
RunTimeouts(strategies, n) == [i \in 1..n |-> strategies[i] + 5]

\* positions the sources may report: in the bad region, outside of it, in
\* the Seremban area, and more than 100 km from the second
PosPool == {5000, 30000, 60000, 140000}

\* _calculate_distance (agent.py:1224-1239) on the line
Distance(p, q) == IF p < q THEN q - p ELSE p - q

InKl(f) == Distance(KlCentre, f.pos) < KlRadius

InSeremban(f) == Distance(SerembanCentre, f.pos) < SerembanRadius

\* one attempt of the satellite/OS-location step: subprocess.run timed out
\* or printed UNKNOWN, printed NOT_SUPPORTED, or printed "lat,lng,acc"
Timeout == [kind |-> "timeout", fix |-> NoFix]

NotSupported == [kind |-> "not_supported", fix |-> NoFix]

Located(pos, acc) == [kind |-> "fix", fix |-> Fix(pos, "gps", acc)]

\* the attempts of one call: failures first, then the attempt that decides
GpsRuns ==
    { [i \in 1..NormalStrategies |-> Timeout],
      [i \in 1..NormalStrategies |-> IF i = 1 THEN NotSupported ELSE Timeout],
      [i \in 1..NormalStrategies |-> IF i = 2 THEN NotSupported ELSE Timeout] }
    \cup { [i \in 1..NormalStrategies |-> Located(30000, 15000)] }
    \cup UNION { { [i \in 1..NormalStrategies |-> Located(p, 50)],
                   [i \in 1..NormalStrategies |->
                       IF i = 1 THEN Timeout ELSE Located(p, 50)],
                   [i \in 1..NormalStrategies |->
                       IF i = 1 THEN Located(p, 15000) ELSE Located(p, 50)] }
                 : p \in PosPool }

\* what _get_google_geolocation may return: None (no access points, an
\* error, accuracy of 5000 m or more) or a fix
WifiOutcomes == {NoFix} \cup { Fix(p, "wifi", 100) : p \in {5000, 30000, 140000} }

\* what the IP services may answer, in list order; NoFix = no answer.  The
\* services after the first that answers name another position.
IpAnswers ==
    { [i \in 1..IpServices |-> NoFix] }
    \cup { [i \in 1..IpServices |->
              IF i < w THEN NoFix
              ELSE IF i = w THEN Fix(pq[1], "ip", 0) ELSE Fix(pq[2], "ip", 0)]
           : w \in 1..IpServices, pq \in { <<5000, 30000>>, <<30000, 5000>> } }

\* the attempts of one call of _force_gps_location
ForceRuns ==
    { [i \in 1..Len(ForceTimeouts) |-> Timeout],
      [i \in 1..Len(ForceTimeouts) |-> NotSupported],
      [i \in 1..Len(ForceTimeouts) |-> Located(30000, 15000)],
      [i \in 1..Len(ForceTimeouts) |->
          IF i = 1 THEN Timeout ELSE Located(30000, 50)],
      [i \in 1..Len(ForceTimeouts) |->
          IF i < 3 THEN Timeout ELSE Located(30000, 50)] }

\* the attempt loop of _force_gps_location (agent.py:863-970) from attempt
\* i on: the position the OS reports is returned whatever its accuracy,
\* NOT_SUPPORTED returns None, a timeout goes on to the next strategy
RECURSIVE ForceLoop(_, _)
ForceLoop(run, i) ==
    IF i > Len(ForceTimeouts) THEN [n |-> Len(ForceTimeouts), fix |-> NoFix]
    ELSE IF run[i].kind = "fix" THEN [n |-> i, fix |-> run[i].fix]
    ELSE IF run[i].kind = "not_supported" THEN [n |-> i, fix |-> NoFix]
    ELSE ForceLoop(run, i + 1)

\* _force_gps_location (agent.py:854-971): the attempts made and the result
ForceResults == { ForceLoop(run, 1) : run \in ForceRuns }

\* what _force_gps_location may return
ForceOutcomes == { r.fix : r \in ForceResults }

\* return x
Return(a, x, cached) ==
    [a EXCEPT !.loc_ev.returned = x, !.loc_ev.from_cache = cached,
              !.loc_ev.done = TRUE]

\* accuracy > 0 and accuracy < 10000 (agent.py:617)
GpsAccepts(fix) == fix.acc > 0 /\ fix.acc < MaxAccuracy

\* the attempt loop (agent.py:511-673) from attempt i on: the number of
\* attempts made and the fix accepted, if any
RECURSIVE GpsLoop(_, _, _)
GpsLoop(run, i, budget) ==
    IF i > budget THEN [n |-> budget, fix |-> NoFix]
    ELSE IF run[i].kind = "fix" /\ GpsAccepts(run[i].fix)
    THEN [n |-> i, fix |-> run[i].fix]
    ELSE IF run[i].kind = "not_supported" THEN [n |-> i, fix |-> NoFix]
    ELSE GpsLoop(run, i + 1, budget)

\* METHOD 1 (agent.py:486-678); recent = the last attempt was less than
\* 300 s ago
GpsStep(a, run, recent) ==
    LET timeout_strategies == IF a.last_gps_attempt_time = "set" /\ recent
                              THEN RecentTimeouts ELSE NormalTimeouts
        r == GpsLoop(run, 1, Len(timeout_strategies))
        a1 == [a EXCEPT !.last_gps_attempt_time = "set",
                        !.loc_ev.gps_attempts = r.n,
                        !.loc_ev.recent = (a.last_gps_attempt_time = "set" /\ recent),
                        !.loc_ev.gps_timeouts = RunTimeouts(timeout_strategies, r.n),
                        !.loc_ev.coarse_seen =
                            \E i \in 1..r.n : /\ run[i].kind = "fix"
                                              /\ run[i].fix.acc >= MaxAccuracy]
    IN IF r.fix # NoFix
       THEN Return([a1 EXCEPT !.last_known_location = r.fix,
                              !.loc_ev.gps_accepted = TRUE], r.fix, FALSE)
       ELSE a1

\* METHOD 2 (agent.py:684-718).  Reading an attribute that was never
\* assigned raises AttributeError out of get_location.
WifiStep(a, wifi) ==
    IF a.google_maps_api_key = "unset"
    THEN [a EXCEPT !.loc_ev.raised = TRUE, !.loc_ev.done = TRUE]
    ELSE IF a.google_maps_api_key = "none" THEN a
    ELSE LET a1 == [a EXCEPT !.loc_ev.wifi_queried = TRUE,
                             !.loc_ev.wifi_queries = @ + 1,
                             !.loc_ev.wifi_fix = wifi]
         IN IF wifi = NoFix \/ InKl(wifi) THEN a1
            ELSE IF /\ a1.last_known_location # NoFix
                    /\ Distance(a1.last_known_location.pos, wifi.pos) > JumpLimit
            THEN Return(a1, NoFix, FALSE)
            ELSE Return([a1 EXCEPT !.last_known_location = wifi], wifi, FALSE)

\* the loop over location_services (agent.py:752-765) from service i on:
\* the number of services asked and the first fix answered
RECURSIVE IpLoopLast(_, _)
IpLoopLast(ips, i) ==
    IF i > IpServices THEN [n |-> IpServices, fix |-> NoFix]
    ELSE LET rest == IpLoopLast(ips, i + 1)
         IN IF rest.fix # NoFix \/ ips[i] = NoFix THEN rest
            ELSE [n |-> IpServices, fix |-> ips[i]]

RECURSIVE IpLoop(_, _)
IpLoop(ips, i) ==
    IF i > IpServices THEN [n |-> IpServices, fix |-> NoFix]
    ELSE IF ips[i] # NoFix THEN [n |-> i, fix |-> ips[i]]
    ELSE IpLoop(ips, i + 1)

\* a cached fix outside the bad region is preferred to any IP fix
\* (agent.py:778-796)
PreferCacheNever(cache) == FALSE

PreferCache(cache) == cache # NoFix /\ Distance(KlCentre, cache.pos) >= KlRadius

\* METHOD 3 (agent.py:750-844); forced is what _force_gps_location does
\* when it is called
IpStep(a, ips, forced) ==
    LET r == IpLoop(ips, 1)
        force == forced.fix
        cache == a.last_known_location
        a1 == [a EXCEPT !.loc_ev.ips = ips, !.loc_ev.ip_queried = r.n,
                        !.loc_ev.ip_fix = r.fix]
    IN IF r.fix # NoFix
       THEN IF PreferCache(cache) THEN Return(a1, cache, TRUE)
            ELSE Return(a1, r.fix, FALSE)
       ELSE IF cache = NoFix THEN Return(a1, NoFix, FALSE)
       ELSE IF ~InKl(cache) THEN Return(a1, cache, TRUE)
       ELSE LET a2 == [a1 EXCEPT !.loc_ev.forced = TRUE,
                                 !.loc_ev.force_timeouts =
                                     RunTimeouts(ForceTimeouts, forced.n)]
            IN IF force # NoFix
               THEN Return([a2 EXCEPT !.last_known_location = force],
                           force, FALSE)
               ELSE Return(a2, cache, TRUE)

\* whether _force_gps_location is reached in METHOD 3
NeedsForce(a, ips) ==
    /\ IpLoop(ips, 1).fix = NoFix
    /\ a.last_known_location # NoFix
    /\ InKl(a.last_known_location)

\* get_location (agent.py:474-852) on a Windows device: the records it may
\* leave, one for each outcome of the sources it asks
GetLocation(a) ==
    LET a0 == [a EXCEPT !.loc_ev.called = TRUE,
                        !.loc_ev.cache_before = a.last_known_location]
    IN UNION { LET g == GpsStep(a0, run, recent)
               IN IF g.loc_ev.done THEN {g}
                  ELSE UNION { LET w == WifiStep(g, wifi)
                               IN IF w.loc_ev.done THEN {w}
                                  ELSE UNION { { IpStep(w, ips, forced) :
                                                   forced \in (IF NeedsForce(w, ips)
                                                               THEN ForceResults
                                                               ELSE {[n |-> 0, fix |-> NoFix]}) }
                                               : ips \in IpAnswers }
                             : wifi \in (IF g.google_maps_api_key = "set"
                                         THEN WifiOutcomes ELSE {NoFix}) }
             : run \in GpsRuns,
               recent \in (IF a.last_gps_attempt_time = "set"
                           THEN BOOLEAN ELSE {FALSE}) }

\* the payload location of report_status (agent.py:1354-1407): the cached
\* fix when the device has not moved 50 m, else the location
LocationUnchanged(cache, location) ==
    /\ cache # NoFix
    /\ ~InSeremban(cache)
    /\ Distance(cache.pos, location.pos) < UnchangedRadius

PayloadLocation(cache, location) ==
    IF LocationUnchanged(cache, location) THEN cache ELSE location

\* the test before last_known_location = location (agent.py:1428-1434)
ShouldCacheAlways(unchanged, location) == TRUE

ShouldCache(unchanged, location) ==
    ~unchanged /\ Distance(KlCentre, location.pos) >= KlRadius

\* report_status after get_location has returned or raised
\* (agent.py:1307-1447); force is what the final GPS attempt returns
ReportWith(a, force, post_ok) ==
    IF a.loc_ev.raised THEN a
    ELSE LET a1 == IF a.loc_ev.returned = NoFix /\ force # NoFix
                   THEN [a EXCEPT !.last_known_location = force]
                   ELSE a
             got == IF a.loc_ev.returned = NoFix THEN force
                    ELSE a.loc_ev.returned
             cache == a1.last_known_location
             location == IF /\ InKl(got) /\ cache # NoFix
                            /\ Distance(KlCentre, cache.pos) > KlRadius
                         THEN cache ELSE got
             unchanged == LocationUnchanged(cache, location)
             a2 == [a1 EXCEPT !.loc_ev.pushed = TRUE,
                              !.loc_ev.payload = PayloadLocation(cache, location)]
             a3 == IF post_ok THEN UpdateLocation(a2, a2.status, FALSE) ELSE a2
         IN IF got = NoFix THEN a1
            ELSE IF post_ok /\ ShouldCache(unchanged, location)
            THEN [a3 EXCEPT !.last_known_location = location]
            ELSE a3

\* the start of report_status (agent.py:1286-1305): a cached fix in the
\* Seremban area is dropped, then get_location is called
ReportStart(a) ==
    LET a1 == [a EXCEPT !.loc_ev.kind = "report_status"]
    IN IF a1.last_known_location # NoFix /\ InSeremban(a1.last_known_location)
       THEN [a1 EXCEPT !.last_known_location = NoFix]
       ELSE a1

\* report_status (agent.py:1281-1447) with the resolver in full
ReportStatusLocOn(net) ==
    /\ agent_pc = "idle"
    /\ \E g \in GetLocation(ReportStart(AgentView)) :
       \E force \in (IF ~g.loc_ev.raised /\ g.loc_ev.returned = NoFix
                     THEN ForceOutcomes ELSE {NoFix}) :
       \E post_ok \in (IF g.loc_ev.raised \/ (g.loc_ev.returned = NoFix /\ force = NoFix)
                       THEN {FALSE} ELSE net) :
           Commit(ReportWith(g, force, post_ok))

ReportStatusLoc == ReportStatusLocOn(AnyNet)

\* a call of get_location from check_for_commands (agent.py:1586, 1820)
GetLocationCall ==
    /\ agent_pc = "idle"
    /\ \E g \in GetLocation([AgentView EXCEPT !.loc_ev.kind = "get_location"]) :
           Commit(g)

\* run() before its loop (agent.py:2543-2570): a forced GPS attempt, whose
\* fix is cached and pushed
StartupGps ==
    /\ agent_pc = "startup"
    /\ \E force \in ForceOutcomes : \E post_ok \in AnyNet :
           LET a1 == [AgentView EXCEPT !.agent_pc = "idle",
                                       !.loc_ev.kind = "startup",
                                       !.loc_ev.forced = TRUE]
               a2 == IF force = NoFix THEN a1
                     ELSE [a1 EXCEPT !.last_known_location = force,
                                     !.loc_ev.pushed = TRUE,
                                     !.loc_ev.payload = force]
           IN Commit(IF force # NoFix /\ post_ok
                     THEN UpdateLocation(a2, a2.status, FALSE) ELSE a2)
\* ------------------------------------------- directories of a wipe request

\* 'D:\T', a directory that holds the file 'D:\T\F' and the directory
\* 'D:\T\S' with the file 'D:\T\S\G'; 'D:\E', an empty directory
TreeDir == << "D", ":", "\\", "T" >>

TreeFile == << "D", ":", "\\", "T", "\\", "F" >>

SubDir == << "D", ":", "\\", "T", "\\", "S" >>

SubFile == << "D", ":", "\\", "T", "\\", "S", "\\", "G" >>

EmptyDir == << "D", ":", "\\", "E" >>

\* Path.is_dir of a path that exists
Directories == { TreeDir, SubDir, EmptyDir }

\* the entries below directory d, at any depth
Under(d, nodes) == { p \in nodes : StartsWith(p, d \o << "\\" >>) }

\* the entries of directory d itself (os.scandir)
Entries(d, nodes) ==
    { p \in Under(d, nodes) :
          \A i \in (Len(d) + 2)..Len(p) : p[i] # "\\" }

\* the sets of entries whose unlink or rmdir raises during one walk
FailSets(nodes) == { S \in SUBSET nodes : Cardinality(S) <= MaxFail }

\* progress reports inside a directory are sent every 10 deleted items
\* (agent.py:2374)
ReportEvery == 10

\* the state of a walk: the volume, items_deleted, errors, and the
\* operations made so far (history)
WalkOp(op, path, ok, n) == [op |-> op, path |-> path, ok |-> ok, n |-> n]

\* file_path.unlink() of the walk (agent.py:2367-2384); an unlink of a path
\* in `fail` raises
WalkUnlink(st, f, fail, total_items) ==
    IF f \in fail
    THEN [st EXCEPT !.errors = Append(@, f),
                    !.ops = Append(@, WalkOp("unlink", f, FALSE, st.items_deleted))]
    ELSE LET n == st.items_deleted + 1
             s1 == [st EXCEPT !.fs = @ \ {f}, !.items_deleted = n,
                              !.ops = Append(@, WalkOp("unlink", f, TRUE, n))]
         IN IF n % ReportEvery = 0 /\ total_items > 0
            THEN [s1 EXCEPT !.ops = Append(@, WalkOp("report", f, TRUE, n))]
            ELSE s1

\* dir_path.rmdir() (agent.py:2386-2393, 2395-2401): it raises for a
\* directory that is not empty or is in `fail`, and the walk goes on
WalkRmdir(st, d, fail) ==
    IF d \in fail \/ Under(d, st.fs) # {}
    THEN [st EXCEPT !.ops = Append(@, WalkOp("rmdir", d, FALSE, st.items_deleted))]
    ELSE [st EXCEPT !.fs = @ \ {d}, !.items_deleted = @ + 1,
                    !.ops = Append(@, WalkOp("rmdir", d, TRUE, st.items_deleted + 1))]

\* a walk that removes the directories of a directory before it visits them
WalkOrderTopDown == << "rmdirs", "files", "subdirs" >>

\* os.walk(path_obj, topdown=False) (agent.py:2365): the sub-directories of
\* a directory are visited before the directory; the loop body unlinks the
\* files of the visited directory and then removes its directories
WalkOrder == << "subdirs", "files", "rmdirs" >>

RECURSIVE WalkPhases(_, _, _, _, _), WalkEach(_, _, _, _, _)

\* one phase of the visit of a directory, over the entries `todo` of its
\* listing
WalkEach(phase, todo, st, fail, total_items) ==
    IF todo = {} THEN st
    ELSE LET p == CHOOSE x \in todo : TRUE
             s1 == IF phase = "subdirs"
                   THEN WalkPhases(Entries(p, st.fs), st, fail, total_items, 1)
                   ELSE IF phase = "files"
                   THEN WalkUnlink(st, p, fail, total_items)
                   ELSE WalkRmdir(st, p, fail)
         IN WalkEach(phase, todo \ {p}, s1, fail, total_items)

\* the visit of a directory with the given listing, from phase i on
WalkPhases(listing, st, fail, total_items, i) ==
    IF i > Len(WalkOrder) THEN st
    ELSE LET todo == IF WalkOrder[i] = "files" THEN listing \ Directories
                     ELSE listing \cap Directories
         IN WalkPhases(listing,
                       WalkEach(WalkOrder[i], todo, st, fail, total_items),
                       fail, total_items, i + 1)

\* the loop over os.walk(path_obj, topdown=False) (agent.py:2365-2393)
WalkVisit(root, st, fail, total_items) ==
    WalkPhases(Entries(root, st.fs), st, fail, total_items, 1)

\* "Try to remove root directory" (agent.py:2395-2401)
WalkRoot(st, d, fail) ==
    IF Under(d, st.fs) # {} THEN st ELSE WalkRmdir(st, d, fail)

\* the deletion of directory path d by a run that has deleted n items
DeleteFolder(d, nodes, n, fail, total_items) ==
    WalkRoot(WalkVisit(d, [fs |-> nodes, items_deleted |-> n,
                           errors |-> << >>, ops |-> << >>],
                       fail, total_items),
             d, fail)
\* --------------------------------------------------- the actions of the agent

\* what the two Popen calls of execute_lock did by the time of poll():
\* << first, retry >>; the retry is only made after a first "exited"
SpawnOutcomes ==
    { <<"alive", "alive">>, <<"exited", "alive">>, <<"exited", "exited">>,
      <<"exited", "error">>, <<"error", "alive">> }

\* whether the get_location call of the unlock detection (agent.py:1820)
\* can leave with an exception; the handlers of this part keep only that
\* outcome of the resolver
ResolverRaises(a) ==
    IF UnlockDetected(a)
    THEN { g.loc_ev.raised : g \in GetLocation(a) }
    ELSE {FALSE}

\* check_for_commands after a 200 answer of get_device_status
\* (agent.py:1539-1893).  The inputs are drawn where the code reads them;
\* net is the set of outcomes a request may have.
CommandCheck(net) ==
    \E breach \in (IF wifi_geofence /\ status # "alarm" THEN BOOLEAN ELSE {FALSE}) :
    \E loc \in (IF breach THEN BOOLEAN ELSE {TRUE}) :
    \E post_ok \in (IF loc THEN net ELSE {FALSE}) :
    \E poll_ok \in (IF PendingWipe(wipe_ops) # 0 THEN net ELSE {TRUE}) :
        LET fetched == dev_status
            a1 == GeofenceStep(AddEv(AgentView, "check"), breach, loc, post_ok)
            cmd == CommandOf(fetched, a1.status)
        IN IF cmd = "lock"
           THEN \E logs_ok \in net : \E o \in SpawnOutcomes :
                    Commit(EndOfCheck(
                        LockCommandStep(a1, fetched, logs_ok, o[1], o[2]),
                        poll_ok))
           ELSE IF cmd # "none"
           THEN \E get_ok \in (IF cmd = "wipe" /\ PendingWipe(wipe_ops) # 0
                               THEN net ELSE {TRUE}) :
                \E early \in (IF cmd = "alarm" THEN BOOLEAN ELSE {FALSE}) :
                    Commit(EndOfCheck(
                        OtherCommandStep(a1, fetched, cmd, get_ok, early),
                        poll_ok))
           ELSE \E raised \in ResolverRaises(a1) :
                    Commit(EndOfCheck(
                        StatusSyncStep(UnlockDetectStep(a1, raised, post_ok),
                                       fetched),
                        poll_ok))

\* one call of check_for_commands from run() (agent.py:1530-1918); the first
\* disjunct is a GET that failed or was not 200: the handler does nothing
CheckForCommandsOn(net) ==
    /\ agent_pc \in {"idle", "reported"}
    /\ \/ /\ FALSE \in net
          /\ Commit(AfterStep(AddEv(AgentView, "fetch"), "check_for_commands",
                              "RequestException", "idle"))
       \/ CommandCheck(net)

CheckForCommands == CheckForCommandsOn(AnyNet)

\* what report_status raises inside its try block: get_location reads
\* self.google_maps_api_key (agent.py:684), an attribute that does not exist
\* on a first run, and requests.post raises when the request is lost
ReportRaises(loc, post_ok) ==
    IF ~loc /\ google_maps_api_key = "unset" THEN "AttributeError"
    ELSE IF loc /\ ~post_ok THEN "RequestException"
    ELSE "none"

\* report_status as pushed by the caller, which goes on at pc
ReportStatusTo(net, pc) ==
    \E loc \in BOOLEAN : \E post_ok \in (IF loc THEN net ELSE {FALSE}) :
        /\ agent_pc = "idle"
        /\ Commit(AfterStep(
               IF loc /\ post_ok
               THEN UpdateLocation(AddEv(AgentView, "report"), status, FALSE)
               ELSE AddEv(AgentView, "report"),
               "report_status", ReportRaises(loc, post_ok), pc))

\* a run() that goes back to the top of its loop after report_status
ReportStatusThenIdle(net) == ReportStatusTo(net, "idle")

\* report_status (agent.py:1281-1447): nothing is sent without a location;
\* the payload always carries "status": self.status.  run() calls
\* check_for_commands right after it (agent.py:2598-2604).
ReportStatusOn(net) == ReportStatusTo(net, "reported")

ReportStatus == ReportStatusOn(AnyNet)

\* check_for_config_update (agent.py:1449-1497): a lost request raises
\* RequestException, an answer that is not JSON raises ValueError; an
\* applied update rewrites config.json and reloads it, which assigns
\* google_maps_api_key (agent.py:153)
CheckForConfigUpdate ==
    /\ agent_pc = "idle"
    /\ \E get_ok \in AnyNet :
       \E json_ok \in (IF get_ok THEN BOOLEAN ELSE {TRUE}) :
       \E applied \in (IF get_ok /\ json_ok THEN BOOLEAN ELSE {FALSE}) :
           LET a1 == AddEv(AgentView, "config")
               a2 == IF applied /\ a1.google_maps_api_key = "unset"
                     THEN [a1 EXCEPT !.google_maps_api_key = "none"]
                     ELSE a1
           IN Commit(AfterStep(a2, "check_for_config_update",
                               IF ~get_ok THEN "RequestException"
                               ELSE IF ~json_ok THEN "ValueError"
                               ELSE "none",
                               "idle"))

\* the alarm loop thread (agent.py:2131-2153): it leaves its loop when
\* alarm_running is false or the status is not 'alarm', and its finally
\* clause clears alarm_running
AlarmLoopExit ==
    /\ alarm_threads > 0
    /\ ~(alarm_running /\ status = "alarm")
    /\ Commit([AgentView EXCEPT !.alarm_threads = @ - 1,
                                !.alarm_running = FALSE])

\* --------------------------------------------------- the execute_wipe runs

\* the payload of a wipe status report
Payload(st, progress, files_deleted, total_files, error) ==
    [NoWipeEv EXCEPT !.kind = "report", !.status = st, !.progress = progress,
                     !.files_deleted = files_deleted,
                     !.total_files = total_files, !.error = error]

\* _report_wipe_status (agent.py:2473-2501); `removed` is what the step of
\* the run deleted before it reported
ReportWipeStatus(a, w, payload, removed, post_ok) ==
    LET a1 == [a EXCEPT !.wipe_ev =
                  [payload EXCEPT !.op = w.op, !.paths = w.paths,
                                  !.removed = removed, !.prev = w.sent,
                                  !.since = payload.files_deleted - w.reported]]
    IN IF post_ok THEN UpdateWipeStatus(a1, w.op, payload.status) ELSE a1

\* a step of a run that sends no report
LocalWipeStep(a, w, kind, removed) ==
    [a EXCEPT !.wipe_ev = [NoWipeEv EXCEPT !.kind = kind, !.op = w.op,
                                           !.paths = w.paths,
                                           !.removed = removed]]

\* the control thread after an execute_wipe it ran inline has returned: the
\* rest of check_for_commands (agent.py:1786-1787, 1869-1893)
AfterInline(a, poll_ok) ==
    EndOfCheck(AfterCommand([a EXCEPT !.agent_pc = "idle"], "wiped"), poll_ok)

\* the run goes on as q
StepWorker(a, w, q) ==
    LET q1 == IF a.wipe_ev.kind # "report" THEN q
              ELSE [q EXCEPT !.sent = a.wipe_ev.status,
                             !.reported = IF a.wipe_ev.status = "in_progress"
                                          THEN a.wipe_ev.files_deleted ELSE @]
    IN [a EXCEPT !.workers = (@ (-) SetToBag({w})) (+) SetToBag({q1})]

\* a run that goes on after its terminal report
EndWorkerGoesOn(a, w, poll_ok) == StepWorker(a, w, w)

\* the return of an execute_wipe run
EndWorker(a, w, poll_ok) ==
    LET a1 == [a EXCEPT !.workers = @ (-) SetToBag({w}),
                        !.wipe_ev.ended = TRUE]
    IN IF w.inline THEN AfterInline(a1, poll_ok) ELSE a1


\* execute_wipe: validation of all paths, then the first report
\* (agent.py:2293-2306)
WipeValidate(w) ==
    /\ w.pc = "start"
    /\ \E post_ok \in AnyNet :
       \E poll_ok \in (IF w.inline THEN AnyNet ELSE {TRUE}) :
          LET invalid_paths == InvalidPaths(w.paths)
          IN IF invalid_paths # << >>
             THEN Commit(EndWorker(
                      ReportWipeStatus(
                          AgentView, w,
                          Payload("failed", 0, 0, 0, invalid_paths), {},
                          post_ok),
                      w, poll_ok))
             ELSE Commit(StepWorker(
                      ReportWipeStatus(
                          AgentView, w,
                          Payload("in_progress", 0, 0, 0, << >>), {},
                          post_ok),
                      w, [w EXCEPT !.pc = "count"]))

\* total_items of the first pass: 1 for a file, len(files) + len(dirs) of
\* every directory of the walk for a directory, which leaves out the
\* directory itself
RECURSIVE CountItems(_, _)
CountItems(paths, nodes) ==
    IF paths = << >> THEN 0
    ELSE LET p == Normalize(Head(paths))
         IN (IF p \notin nodes THEN 0
             ELSE IF p \in Directories THEN Cardinality(Under(p, nodes))
             ELSE 1)
            + CountItems(Tail(paths), nodes)

\* execute_wipe, first pass (agent.py:2316-2331): the paths that exist are
\* counted
WipeCount(w) ==
    /\ w.pc = "count"
    /\ LET total_items == CountItems(w.paths, fs)
       IN Commit(StepWorker(
              LocalWipeStep(AgentView, w, "count", {}), w,
              [w EXCEPT !.pc = "delete", !.idx = 1,
                        !.total_items = total_items]))

\* the desired statuses that ask for a wipe (wipe_routes.py:398,
\* device_routes.py:1247)
WipeStatuses == {"wiping", "wiped"}

\* execute_wipe, second pass, a directory path (agent.py:2359-2406): the
\* walk, the removal of the directory itself, and the reports the walk sent
WipeDeleteFolder(w, next, d, fail, post_ok) ==
    LET st == DeleteFolder(d, fs, w.items_deleted, fail, w.total_items)
        reports == SelectSeq(st.ops, LAMBDA o : o.op = "report")
        done == [next EXCEPT
                    !.items_deleted = st.items_deleted,
                    !.errors = @ \o st.errors,
                    !.stale = IF st.fs = fs THEN @
                              ELSE IF status \in WipeStatuses THEN 0
                              ELSE Min(2, @ + 1)]
        a1 == [AgentView EXCEPT !.fs = st.fs]
        a2 == IF reports = << >>
              THEN LocalWipeStep(a1, w, "walk", fs \ st.fs)
              ELSE ReportWipeStatus(
                       a1, w,
                       Payload("in_progress",
                               (reports[Len(reports)].n * 100)
                                   \div done.total_items,
                               reports[Len(reports)].n, done.total_items,
                               << >>),
                       fs \ st.fs, post_ok)
    IN StepWorker([a2 EXCEPT !.wipe_ev.ops = st.ops], w, done)

\* execute_wipe, second pass, one path (agent.py:2334-2357): a file is
\* unlinked and a report follows each deleted file; unlink_ok = FALSE is
\* an unlink that raised
WipeDelete(w) ==
    /\ w.pc = "delete"
    /\ w.idx <= Len(w.paths)
    /\ LET path_str == w.paths[w.idx]
           file == Normalize(path_str)
           next == [w EXCEPT !.idx = @ + 1]
       IN IF file \notin fs
          THEN Commit(StepWorker(LocalWipeStep(AgentView, w, "skip", {}), w, next))
          ELSE IF file \in Directories
          THEN \E fail \in FailSets(Under(file, fs) \cup {file}) :
               \E post_ok \in AnyNet :
                   Commit(WipeDeleteFolder(w, next, file, fail, post_ok))
          ELSE \/ \E post_ok \in AnyNet :
                    LET done == [next EXCEPT
                                    !.items_deleted = @ + 1,
                                    !.stale = IF status \in WipeStatuses THEN 0
                                              ELSE Min(2, @ + 1)]
                        a1 == [AgentView EXCEPT !.fs = @ \ {file}]
                    IN Commit(StepWorker(
                           IF done.total_items > 0
                           THEN ReportWipeStatus(
                                    a1, w,
                                    Payload("in_progress",
                                            (done.items_deleted * 100)
                                                \div done.total_items,
                                            done.items_deleted,
                                            done.total_items, << >>),
                                    {file}, post_ok)
                           ELSE LocalWipeStep(a1, w, "delete", {file}),
                           w, done))
               \/ Commit(StepWorker(
                      LocalWipeStep(AgentView, w, "error", {}), w,
                      [next EXCEPT !.errors = Append(@, path_str)]))

\* execute_wipe, the completion report (agent.py:2408-2421)
WipeComplete(w) ==
    /\ w.pc = "delete"
    /\ w.idx > Len(w.paths)
    /\ \E post_ok \in AnyNet :
       \E poll_ok \in (IF w.inline THEN AnyNet ELSE {TRUE}) :
          Commit(EndWorker(
              ReportWipeStatus(
                  AgentView, w,
                  Payload("completed", 100, w.items_deleted, w.total_items,
                          w.errors),
                  {}, post_ok),
              w, poll_ok))

\* execute_wipe, the outer except clause (agent.py:2423-2426): a statement
\* of one of the two passes that is in no inner try block raised (exists,
\* is_file, is_dir of a path)
WipeFatal(w) ==
    /\ w.pc \in {"count", "delete"}
    /\ \E post_ok \in AnyNet :
       \E poll_ok \in (IF w.inline THEN AnyNet ELSE {TRUE}) :
          Commit(EndWorker(
              ReportWipeStatus(
                  AgentView, w,
                  Payload("failed", 0, w.items_deleted, w.total_items,
                          << w.paths[IF w.idx = 0 THEN 1 ELSE Min(w.idx, Len(w.paths))] >>),
                  {}, post_ok),
              w, poll_ok))

WipeWorker ==
    \E w \in BagToSet(workers) :
        WipeValidate(w) \/ WipeCount(w) \/ WipeDelete(w) \/ WipeComplete(w)
            \/ WipeFatal(w)

\* ------------------------------------------- backend routes used by a user

\* trigger_action (device_routes.py:1218-1278): sets Device.status and adds
\* the activity log; a lock log carries the password and the message
Trigger(action, c) ==
    LET target == IF action = "lock" THEN "locked"
                  ELSE IF action = "alarm" THEN "alarm" ELSE "wiped"
        a1 == SetDev(AddEv(AgentView, "user"), target)
    IN Commit(IF action = "lock"
              THEN [a1 EXCEPT !.lock_log =
                       [password |-> c.password, message |-> c.message,
                        present |-> TRUE]]
              ELSE a1)

TriggerAction ==
    \E action \in {"lock", "alarm", "wipe"} :
    \E c \in (IF action = "lock" THEN LockCommands ELSE {NoLog}) :
        Trigger(action, c)

\* the first lock command of a user
TriggerFirstLock ==
    /\ ~lock_log.present
    /\ \E c \in LockCommands : Trigger("lock", c)

\* clear_alarm (device_routes.py:1474-1510)
ClearAlarm ==
    /\ dev_status = "alarm"
    /\ Commit(SetDev(AddEv(AgentView, "user"), "active"))

\* set_geofence (device_routes.py:1400-1470) with geofence_type 'wifi'
SetGeofence == Commit([AgentView EXCEPT !.wifi_geofence = ~@])

\* the path lists a dashboard user asks to wipe
WipeJobs ==
    { << DataFileA, DataFileB >>, << DataFileB, RecyclerFile >>,
      << WindowsDir >> }

\* trigger_wipe (wipe_routes.py:328-421): a request with a path the backend
\* finds invalid, or made while an operation is in_progress, is answered 400
TriggerWipeOf(jobs) ==
    \E paths \in jobs :
        LET a == AddEv(AgentView, "user")
            refused ==
                \/ \E i \in DOMAIN paths : ~BackendIsPathValid(ReplaceSlash(paths[i]))
                \/ \E i \in DOMAIN wipe_ops : wipe_ops[i].status = "in_progress"
            wipe_op == [paths |-> [i \in DOMAIN paths |-> ReplaceSlash(paths[i])],
                        status |-> "pending"]
        IN Commit(IF refused THEN a
                  ELSE IF Len(wipe_ops) >= MaxOps
                  THEN [a EXCEPT !.overflow = TRUE]
                  ELSE SetDev([a EXCEPT !.wipe_ops = Append(@, wipe_op)],
                              "wiping"))

TriggerWipe == TriggerWipeOf(WipeJobs)

\* the path lists with directories a dashboard user asks to wipe
TreeJobs ==
    { << EmptyDir >>, << TreeDir, DataFileA >> }

TriggerWipeTree == TriggerWipeOf(TreeJobs)

\* the path lists of the wipe requests made during the ticks of run()
RunJobs == { << DataFileA >>, << DataFileB, RecyclerFile >> }

TriggerWipeRun == TriggerWipeOf(RunJobs)

\* trigger_action with action 'wipe'
TriggerActionWipe == Trigger("wipe", NoLog)

\* trigger_action with action 'alarm' while an execute_wipe runs
TriggerAlarmDuringWipe ==
    /\ workers # EmptyBag
    /\ Trigger("alarm", NoLog)

\* ------------------------------------------------- the lock-screen process

\* the bag with process r replaced by process q
Replace(ps, r, q) == (ps (-) SetToBag({r})) (+) SetToBag({q})

\* save_lock_state of the lock script (prey_lock_screen.py:652-663): the
\* file is written and the password is logged
ProcSaveLockState(a, pw, msg) ==
    LET a1 == Did([a EXCEPT !.lock_state_file =
                      [password |-> pw, message |-> msg, present |-> TRUE]],
                  "write")
    IN Wrote(Wrote(a1, "lock_state.json", pw), "lock_screen.log", pw)

\* __main__ up to save_lock_state (prey_lock_screen.py:731-787, 702-714): the
\* password comes from lock_state.json when it exists, else from argv, and
\* is logged; the process returns when the port already accepts, else it
\* writes the file
ProcMain(r) ==
    /\ r.st = "spawned"
    /\ LET pw == IF lock_state_file.present THEN lock_state_file.password
                 ELSE r.pw
           msg == IF lock_state_file.present THEN lock_state_file.message
                  ELSE r.msg
           a == Wrote(Handles(AgentView, "lock_process", pw),
                      "lock_screen.log", pw)
       IN IF PortAccepts
          THEN Commit([a EXCEPT !.procs = @ (-) SetToBag({r})])
          ELSE Commit([ProcSaveLockState(a, pw, msg) EXCEPT
                  !.procs = Replace(@, r, [r EXCEPT !.st = "building",
                                                    !.pw = pw, !.msg = msg])])

\* PreyLockScreen.__init__ (prey_lock_screen.py:71-199): the window is built,
\* then start_lock_server binds port 12345 with SO_REUSEADDR; a failed bind
\* is swallowed.  When another process listens already, the platform
\* decides whether the second bind succeeds.  __init__ logs the password
\* (prey_lock_screen.py:83-85).
ProcServe(r) ==
    /\ r.st = "building"
    /\ \E bound \in (IF PortAccepts THEN BOOLEAN ELSE {TRUE}) :
           Commit([Wrote(Handles(AgentView, "lock_process", r.pw),
                         "lock_screen.log", r.pw) EXCEPT
               !.procs = Replace(@, r, [r EXCEPT !.st = "running",
                                                 !.port = bound])])

\* the start-up fails (tkinter test or window creation raises,
\* prey_lock_screen.py:760-775, 114-126): sys.exit(1), nothing is cleaned up
ProcFail(r) ==
    /\ r.st \in {"spawned", "building"}
    /\ Commit([AgentView EXCEPT !.procs = @ (-) SetToBag({r})])

\* a check_password that calls the backend before it deletes the file
UnlockOrderPostFirst == << "post", "unlink", "close", "unlink" >>

\* the statements of check_password after a match, in program order
\* (prey_lock_screen.py:494-575): the file is deleted, the window is closed,
\* and the cleanup thread deletes the file if it is still there and then
\* posts 'active'
UnlockOrder == << "unlink", "close", "unlink", "post" >>

\* one statement of check_password.  unlink_ok = FALSE is an unlink that
\* raises (both unlinks are inside try blocks); delivered is whether the
\* daemon cleanup thread gets to its POST, and is answered, before the
\* process is gone.
UnlockStatement(a, r, op, unlink_ok, delivered) ==
    IF op = "unlink"
    THEN IF ~a.lock_state_file.present THEN a
         ELSE IF unlink_ok
         THEN Did([a EXCEPT !.lock_state_file = NoFile], "unlink")
         ELSE Did(a, "unlink")
    ELSE IF op = "close"
    THEN [a EXCEPT !.procs = @ (-) SetToBag({r})]
    ELSE IF delivered THEN UpdateLocation(Did(a, "post"), "active", FALSE)
    ELSE a

RECURSIVE UnlockRun(_, _, _, _, _, _)
UnlockRun(a, r, order, i, unlink_ok, delivered) ==
    IF i > Len(order) THEN a
    ELSE UnlockRun(UnlockStatement(a, r, order[i], unlink_ok, delivered),
                   r, order, i + 1, unlink_ok, delivered)

\* check_password with the expected password (prey_lock_screen.py:469-575):
\* the entered and the expected password are logged, then the statements
\* above run and the process ends, which closes its listener
ProcUnlock(r) ==
    \E delivered \in BOOLEAN :
    \E unlink_ok \in (IF lock_state_file.present THEN BOOLEAN ELSE {TRUE}) :
        /\ r.st = "running"
        /\ LET a == Wrote(Handles(AddEv(AgentView, "unlocked"),
                                  "lock_process", r.pw),
                          "lock_screen.log", r.pw)
           IN Commit(UnlockRun(a, r, UnlockOrder, 1, unlink_ok, delivered))

\* the process ends while the window is shown without the password having
\* been entered: it is killed, or mainloop raises and the retry fails
\* (prey_lock_screen.py:636-650).  Its listener closes; lock_state.json is
\* deleted only in check_password, so it stays.
ProcCrash(r) ==
    /\ r.st = "running"
    /\ Commit(AddEv([AgentView EXCEPT !.procs = @ (-) SetToBag({r})],
                    "crashed"))

LockProcess ==
    \E r \in BagToSet(procs) :
        ProcMain(r) \/ ProcServe(r) \/ ProcFail(r) \/ ProcUnlock(r)
            \/ ProcCrash(r)

\* the start-up of a spawned lock-screen process goes on, one way or the other
LockStartup ==
    \E r \in BagToSet(procs) : ProcMain(r) \/ ProcServe(r) \/ ProcFail(r)

\* ------------------------------------------------------ the specifications

\* the files on volume D: when the agent starts
InitialFiles == { Normalize(DataFileA), Normalize(DataFileB), Normalize(RecyclerFile) }

InitCore ==
    /\ dev_status = "active"
    /\ lock_log = NoLog
    /\ wifi_geofence = FALSE
    /\ wipe_ops = << >>
    /\ status = "active"
    /\ last_lock_status = "none"
    /\ alarm_running = FALSE
    /\ alarm_threads = 0
    /\ workers = EmptyBag
    /\ lock_state_file = NoFile
    /\ procs = EmptyBag
    /\ disp_count = 0
    /\ ev = {}
    /\ last_known_location = NoFix
    /\ last_gps_attempt_time = "none"
    /\ loc_ev = NoLocEv

\* config.json exists when the agent starts and names no service key
\* (load_config, agent.py:145-170)
Init ==
    /\ InitCore
    /\ fs = InitialFiles
    /\ agent_pc = "idle"
    /\ lock_ev = NoLockEv
    /\ wipe_ev = NoWipeEv
    /\ google_maps_api_key = "none"

\* the control loop with the lock, alarm and geofence commands of a user
Next ==
    \/ CheckForCommands
    \/ ReportStatus
    \/ AlarmLoopExit
    \/ TriggerAction
    \/ ClearAlarm
    \/ SetGeofence
    \/ LockProcess

Spec == Init /\ [][Next]_vars

\* the same handlers when every request to the backend is answered
CheckForCommandsReachable == CheckForCommandsOn(Reachable)

ReportStatusReachable == ReportStatusOn(Reachable)

\* no WiFi geofence is configured here
FairNext ==
    \/ CheckForCommandsReachable
    \/ ReportStatusReachable
    \/ AlarmLoopExit
    \/ TriggerAction
    \/ ClearAlarm
    \/ LockProcess

\* run() keeps calling report_status and check_for_commands
\* (agent.py:2593-2624); the scheduler keeps running a started thread or
\* process
FairSpec ==
    /\ Init
    /\ [][FairNext]_vars
    /\ WF_vars(CheckForCommandsReachable)
    /\ WF_vars(ReportStatusReachable)
    /\ WF_vars(AlarmLoopExit)
    /\ WF_vars(LockStartup)

\* the control loop with the wipe requests of a user
WipeNext ==
    \/ CheckForCommands
    \/ ReportStatus
    \/ TriggerWipe
    \/ TriggerActionWipe
    \/ WipeWorker

SpecWipe == Init /\ [][WipeNext]_vars

\* the path lists a validation may be given
PathJobs == UNION { [1..n -> PathPool] : n \in 1..MaxJobLen }

InitPath ==
    /\ InitCore
    /\ fs = InitialFiles
    /\ agent_pc = "idle"
    /\ lock_ev = NoLockEv
    /\ google_maps_api_key = "none"
    /\ \E paths \in PathJobs :
           wipe_ev = [NoWipeEv EXCEPT !.kind = "job", !.paths = paths]

\* the validation loop of execute_wipe on a path list (agent.py:2293-2297)
ValidatePaths ==
    /\ wipe_ev.kind = "job"
    /\ Commit([AgentView EXCEPT !.wipe_ev =
                   [wipe_ev EXCEPT !.kind = "validate",
                                   !.error = InvalidPaths(wipe_ev.paths)]])

SpecPath == InitPath /\ [][ValidatePaths]_vars


\* the agent at the start of run(), with any configuration of the service
\* key: config.json absent ("unset"), without a key, with a key
InitLoc ==
    /\ InitCore
    /\ fs = InitialFiles
    /\ agent_pc = "startup"
    /\ lock_ev = NoLockEv
    /\ wipe_ev = NoWipeEv
    /\ google_maps_api_key \in {"unset", "none", "set"}

\* the location resolver and its callers
LocNext ==
    \/ StartupGps
    \/ GetLocationCall
    \/ ReportStatusLoc

SpecLoc == InitLoc /\ [][LocNext]_vars

\* a first run: config.json does not exist, load_config calls
\* create_default_config, which writes the file and leaves the attribute
\* google_maps_api_key unset (agent.py:145-189)
InitFirstRun ==
    /\ InitCore
    /\ fs = InitialFiles
    /\ agent_pc = "idle"
    /\ lock_ev = NoLockEv
    /\ wipe_ev = NoWipeEv
    /\ google_maps_api_key = "unset"

SpecFirstRun == InitFirstRun /\ [][Next]_vars

\* a lock request of the dashboard with any password and message
InitText ==
    /\ InitCore
    /\ fs = InitialFiles
    /\ agent_pc = "idle"
    /\ wipe_ev = NoWipeEv
    /\ google_maps_api_key = "none"
    /\ \E password \in PasswordPool : \E message \in MessagePool :
           lock_ev = LockRequest(password, message)

\* the way of a password from the request to the agent
TextNext == TriggerLockText \/ ExtractFromLog

SpecText == InitText /\ [][TextNext]_vars

\* a wipe during which the user asks for an alarm
WipeStopNext ==
    \/ CheckForCommands
    \/ TriggerWipe
    \/ TriggerAlarmDuringWipe
    \/ WipeWorker

SpecWipeStop == Init /\ [][WipeStopNext]_vars

\* the three steps of a tick of run() (agent.py:2592-2624) on a first run,
\* with the wipe requests of a user
RunNext ==
    \/ ReportStatus
    \/ CheckForCommands
    \/ CheckForConfigUpdate
    \/ TriggerWipeRun
    \/ TriggerActionWipe
    \/ WipeWorker

SpecRun == InitFirstRun /\ [][RunNext]_vars

\* one lock session: the user issues a single lock command; requests may be
\* lost, but run() keeps calling report_status and check_for_commands and
\* requests are answered again and again
UnlockNext ==
    \/ CheckForCommands
    \/ ReportStatus
    \/ TriggerFirstLock
    \/ LockProcess

SpecUnlock ==
    /\ Init
    /\ [][UnlockNext]_vars
    /\ WF_vars(CheckForCommandsReachable)
    /\ WF_vars(ReportStatusReachable)
    /\ WF_vars(LockStartup)

\* the directories and their files on volume D:
TreeNodes == { TreeDir, TreeFile, SubDir, SubFile, EmptyDir }

\* volume D: holds two directories, and the user asks to wipe directories
InitTree ==
    /\ InitCore
    /\ fs = InitialFiles \cup TreeNodes
    /\ agent_pc = "idle"
    /\ lock_ev = NoLockEv
    /\ wipe_ev = NoWipeEv
    /\ google_maps_api_key = "none"

TreeNext ==
    \/ CheckForCommandsReachable
    \/ TriggerWipeTree
    \/ WipeWorker

SpecTree == InitTree /\ [][TreeNext]_vars
\* ------------------------------------------------------------------ claims

\* lock-screen processes that passed their own is_lock_screen_running test
ShownProcs == { r \in BagToSet(procs) : r.st \in {"building", "running"} }

NumShown == BagCardinality([r \in ShownProcs |-> CopiesIn(r, procs)])

\* C1: while the desired status of the backend stays at one value, the
\* action of that status (execute_lock, execute_alarm, execute_wipe) is
\* dispatched at most once.
C1_DispatchAtMostOnce == disp_count <= 1

\* C2: at most one lock-screen process runs at any time.
C2_AtMostOneLockProcess == NumShown <= 1

\* C3: whenever the desired status is locked while the local status is not,
\* the agent eventually calls execute_lock, unless the user issues another
\* command first (ticks keep running, the backend answers every request).
C3_LockEventuallyDispatched ==
    (dev_status = "locked" /\ status # "locked")
        ~> ("exec_lock" \in ev \/ "user" \in ev)

\* C4: when the spawn of the lock screen failed (also on the retry) and no
\* lock-screen process exists, the local status is not 'locked' and no lock
\* session is recorded as running.
C4_FailedLockLeavesUnlocked ==
    ("lock_failed" \in ev /\ procs = EmptyBag)
        => (status # "locked" /\ last_lock_status # "locked")

\* C5: after a lock session ended by the entry of the secret, the agent
\* eventually is back to not locked, with lock_state.json absent and port
\* 12345 closed, unless the user issues another command first.
C5_SessionReturnsToIdle ==
    ("unlocked" \in ev)
        ~> \/ status # "locked" /\ ~lock_state_file.present /\ ~PortAccepts
           \/ "user" \in ev

C7_DuplicateLockIsNoOp ==
    [][(PortAccepts /\ "dup_lock" \in ev')
          => (procs' = procs /\ lock_state_file' = lock_state_file)]_vars

\* the paths of a list
Range(s) == { s[i] : i \in DOMAIN s }

\* C8: a step of an execute_wipe run whose path list holds a path that fails
\* validation deletes nothing and reports 'failed' with files_deleted = 0
\* and an error that names exactly the failing paths; so the run never
\* reports in_progress.
C8_InvalidPathFailsWholeJob ==
    [][(wipe_ev'.kind # "none" /\ \E p \in Range(wipe_ev'.paths) : ~IsPathValid(p))
          => /\ fs' = fs
             /\ wipe_ev'.kind = "report"
             /\ wipe_ev'.status = "failed"
             /\ wipe_ev'.files_deleted = 0
             /\ Range(wipe_ev'.error) =
                    { p \in Range(wipe_ev'.paths) : ~IsPathValid(p) }]_vars

C8_Witness ==
    /\ wipe_ev.kind = "report"
    /\ wipe_ev.status = "failed"
    /\ wipe_ev.error # << >>
    /\ \E p \in Range(wipe_ev.paths) : IsPathValid(p) /\ Normalize(p) \in fs

\* the live execute_wipe runs of operation op
RunsOf(op) ==
    LET mine == { w \in BagToSet(workers) : w.op = op }
    IN BagCardinality([w \in mine |-> CopiesIn(w, workers)])

\* C9: no two execute_wipe runs of the same operation are alive at once.
C9_OneRunPerOperation == \A op \in DOMAIN wipe_ops : RunsOf(op) <= 1

\* the components of a normalized path, split at the backslashes
RECURSIVE Components(_)
Components(s) ==
    LET seps == { i \in DOMAIN s : s[i] = "\\" }
    IN IF s = << >> THEN << >>
       ELSE IF seps = {} THEN << s >>
       ELSE LET k == CHOOSE i \in seps : \A j \in seps : i <= j
                rest == Components(SubSeq(s, k + 1, Len(s)))
            IN IF k = 1 THEN rest ELSE << SubSeq(s, 1, k - 1) >> \o rest

IsPrefixOf(x, y) == Len(x) <= Len(y) /\ SubSeq(y, 1, Len(x)) = x

\* the deny-listed directories
DenyDirs == { Components(blocked) : blocked \in blocked_paths }

\* the allow-list policy: rooted under D:\, and neither a deny-listed
\* directory, nor an ancestor of one, nor inside one
PolicyAllows(path) ==
    LET c == Components(Normalize(path))
    IN /\ StartsWith(Normalize(path), VolumeRoot)
       /\ \A d \in DenyDirs : ~IsPrefixOf(c, d) /\ ~IsPrefixOf(d, c)

\* C10: the validation finds a path invalid exactly when the allow-list
\* policy does not allow it.
C10_ValidatorMatchesPolicy ==
    wipe_ev.kind = "validate"
        => \A p \in Range(wipe_ev.paths) :
               (p \in Range(wipe_ev.error)) <=> ~PolicyAllows(p)

\* ------------------------------------------- claims: the location resolver

\* C11: a call of get_location that finds a cached fix outside the bad
\* region never returns an IP fix that lies inside the bad region; when the
\* IP services answer with such a fix, the cached fix is returned.
C11_CachePreferredToBadRegionIp ==
    (loc_ev.called /\ loc_ev.cache_before # NoFix /\ ~InKl(loc_ev.cache_before))
    => /\ ~(loc_ev.returned.src = "ip" /\ InKl(loc_ev.returned))
       /\ (loc_ev.ip_fix # NoFix /\ InKl(loc_ev.ip_fix))
              => loc_ev.returned = loc_ev.cache_before

C11_Witness ==
    /\ loc_ev.called
    /\ loc_ev.cache_before # NoFix
    /\ ~InKl(loc_ev.cache_before)
    /\ loc_ev.ip_fix # NoFix
    /\ InKl(loc_ev.ip_fix)
    /\ loc_ev.returned = loc_ev.cache_before

\* C12: a call of get_location that finds a cached fix and does not raise
\* returns a fix (it returns None only when nothing is cached).
C12_NoneOnlyWithoutCache ==
    (loc_ev.called /\ ~loc_ev.raised /\ loc_ev.cache_before # NoFix)
    => loc_ev.returned # NoFix

\* C13: a fix that get_location obtains from the satellite/OS-location
\* source with a reported accuracy of 10 000 m or more is neither returned
\* by the call nor stored in last_known_location by it.
C13_CoarseGpsNeverUsed ==
    [][loc_ev'.kind = "get_location" =>
        /\ (~loc_ev'.from_cache /\ loc_ev'.returned.src = "gps")
               => loc_ev'.returned.acc < MaxAccuracy
        /\ (last_known_location' # last_known_location
               /\ last_known_location'.src = "gps")
               => last_known_location'.acc < MaxAccuracy]_vars

C15_CacheNeverHoldsIpFix == last_known_location.src # "ip"

\* C16: in a call of get_location the WiFi source is asked only when the
\* satellite step accepted no fix and a service key is configured; an IP
\* service is asked only when neither earlier step returned; the IP services
\* are asked in list order up to the first that answers with a fix, and that
\* fix is the IP fix of the call.
C16_SourcesInFixedOrder ==
    loc_ev.called =>
        /\ loc_ev.gps_attempts >= 1
        /\ loc_ev.wifi_queried =>
               (~loc_ev.gps_accepted /\ google_maps_api_key = "set")
        /\ loc_ev.ip_queried > 0 =>
               /\ ~loc_ev.gps_accepted
               /\ loc_ev.wifi_queried =>
                      (loc_ev.wifi_fix = NoFix \/ InKl(loc_ev.wifi_fix))
               /\ \A i \in 1..(loc_ev.ip_queried - 1) : loc_ev.ips[i] = NoFix
               /\ \/ loc_ev.ip_fix = loc_ev.ips[loc_ev.ip_queried]
                  \/ loc_ev.ip_queried = IpServices /\ loc_ev.ip_fix = NoFix
               /\ loc_ev.ip_fix = NoFix => loc_ev.ip_queried = IpServices

C16_Witness ==
    /\ loc_ev.called
    /\ loc_ev.gps_attempts = NormalStrategies
    /\ loc_ev.wifi_queried
    /\ loc_ev.ip_queried = 2
    /\ loc_ev.returned = loc_ev.ips[2]
    /\ loc_ev.ips[3] # NoFix

\* C20: every report_status sends a status push, with or without a fix.
C20_ReportAlwaysPushes == loc_ev.kind = "report_status" => loc_ev.pushed

\* C17: whenever a command check observes desired status alarm while no
\* alarm routine is running, an alarm routine is running when the check
\* is over.
C17_AlarmStartedWhenDesired ==
    [][("check" \in ev' /\ dev_status = "alarm" /\ alarm_threads = 0)
           => (alarm_threads' > 0 /\ alarm_running')]_vars

\* C18: at no time do two alarm routines run concurrently.
C18_AtMostOneAlarmRoutine == alarm_threads <= 1

\* C19: a command check that detects a local unlock sends the status push
\* with status 'active' within that same check.
C19_UnlockAlwaysPushed ==
    [][("unlock_declared" \in ev') => ("unlock_push" \in ev')]_vars

\* C21: whenever the last lock-screen process has ended, by the entry of
\* the password or by a crash or kill, while the agent treats the device as
\* locked, the local status eventually leaves 'locked' or a new lock
\* process is started, unless the user issues another command first
\* (ticks keep running, the backend answers every request).
C21_DeadSessionEventuallyEnds ==
    (("crashed" \in ev \/ "unlocked" \in ev)
         /\ status = "locked" /\ procs = EmptyBag)
        ~> (status # "locked" \/ procs # EmptyBag \/ "user" \in ev)

\* C22: the argument list with which execute_lock spawns the lock process
\* never contains the password of the session.
C22_PasswordNotOnCommandLine ==
    \A i \in DOMAIN lock_ev.argv : lock_ev.argv[i] # lock_ev.password

\* C23: no step of the agent or of the lock process writes the session
\* secret in cleartext to a file other than lock_state.json.
C23_SecretOnlyInArtifact ==
    \A w \in lock_ev.wrote :
        w.text = lock_ev.password => w.file = "lock_state.json"

\* C24: when the correct password is entered, the lock process calls the
\* backend only after its deletion of lock_state.json: at the time of the
\* call the file is gone, or a deletion was attempted before and failed.
C24_ArtifactDeletedBeforeNetwork ==
    ("unlocked" \in ev)
        => \A i \in DOMAIN lock_ev.steps :
               (lock_ev.steps[i].op = "post" /\ lock_ev.steps[i].artifact)
                   => \E j \in 1..(i - 1) :
                          /\ lock_ev.steps[j].op = "unlink"
                          /\ lock_ev.steps[j].artifact

C24_Witness ==
    /\ "unlocked" \in ev
    /\ lock_ev.actor = "lock_process"
    /\ \E i \in DOMAIN lock_ev.steps : \E j \in 1..(i - 1) :
           /\ lock_ev.steps[j].op = "unlink" /\ ~lock_ev.steps[j].artifact
           /\ lock_ev.steps[i].op = "post" /\ ~lock_ev.steps[i].artifact
    /\ dev_status = "active"

\* C25: only the agent writes lock_state.json and only the lock process
\* deletes it.
C25_OneWriterOneDeleter ==
    \A i \in DOMAIN lock_ev.steps :
        /\ lock_ev.steps[i].op = "write" => lock_ev.actor = "agent"
        /\ lock_ev.steps[i].op = "unlink" => lock_ev.actor = "lock_process"

\* C26: a running lock-screen process ends only by the local entry of its
\* expected password (or by a crash or kill of the process); no step of the
\* agent or of the backend, whatever the desired status, ends it or closes
\* its port.
C26_LockProcessNotRemotelyCancellable ==
    [][\A r \in BagToSet(procs) :
           (r.st = "running" /\ CopiesIn(r, procs') < CopiesIn(r, procs))
               => \/ "unlocked" \in ev' /\ lock_ev'.actor = "lock_process"
                                       /\ lock_ev'.password = r.pw
                  \/ "crashed" \in ev']_vars

C26_Witness ==
    /\ "check" \in ev
    /\ dev_status = "active" /\ status = "active"
    /\ \E r \in BagToSet(procs) : r.st = "running" /\ r.port

\* C27: the password the agent extracts from a lock description equals the
\* password the backend embedded in it.
C27_PasswordRoundTrip ==
    lock_ev.actor = "agent" /\ lock_ev.description # << >>
        => lock_ev.extracted = lock_ev.password

\* C28: once a command check has observed a desired status that is not a
\* wipe status, a running execute_wipe deletes at most the file of the loop
\* pass it is in.
C28_WipeStopsOnStateChange ==
    \A w \in BagToSet(workers) : w.stale <= 1

\* C29: a step of a tick (report_status, check_for_config_update,
\* check_for_commands, with its command dispatch and its wipe poll) in which
\* an exception was raised or a request was lost leaves run() in its loop,
\* at the place where the step would have left it, and the command check
\* can run again.
C29_StepFailureKeepsLoop ==
    /\ agent_pc # "fatal"
    /\ "failed" \in ev =>
           /\ agent_pc = (IF "report" \in ev THEN "reported" ELSE "idle")
           /\ ENABLED CheckForCommands

C29_Witness ==
    /\ "failed" \in ev
    /\ "report" \in ev
    /\ google_maps_api_key = "unset"
    /\ agent_pc = "reported"

\* C30: when report_status has run, it has returned before anything else
\* of the tick, and the next step of the control thread is the GET of
\* check_for_commands.
C30_PushThenCheck ==
    /\ []("report" \in ev => agent_pc = "reported")
    /\ [][agent_pc = "reported" /\ agent_pc' # "reported"
              => "check" \in ev' \/ "fetch" \in ev']_vars

C30_Witness ==
    /\ "report" \in ev
    /\ agent_pc = "reported"
    /\ KindOf(dev_status) # "none" /\ dev_status # status

\* C31: a report_status push leaves the desired status of the backend as it
\* was.
C31_ReportKeepsDesiredStatus ==
    [][("report" \in ev') => dev_status' = dev_status]_vars

\* C32: after a local unlock the desired status of the backend becomes
\* 'active', and, no lock command having been issued since, no step of the
\* agent turns it to 'locked'.
C32_UnlockSettlesActive ==
    /\ ("unlocked" \in ev) ~> (dev_status = "active")
    /\ [][("report" \in ev' \/ "check" \in ev')
              => ~(dev_status # "locked" /\ dev_status' = "locked")]_vars

\* C33: when a command check ends with local status 'locked', lock_state.json
\* exists or a lock screen listens on port 12345; the check that declares an
\* unlock ends with local status 'active'.
C33_LockedMeansLiveSession ==
    "check" \in ev =>
        /\ status = "locked" =>
               \/ lock_state_file.present
               \/ \E r \in BagToSet(procs) : r.port
        /\ "unlock_declared" \in ev => status = "active"

\* C34: every lock-screen process expects the password of the lock command
\* the backend holds.
C34_SessionSecretIsConfigured ==
    \A r \in BagToSet(procs) : r.pw = lock_log.password

\* C35: the first report of an execute_wipe run whose paths are all valid is
\* in_progress, its terminal report (completed or failed) follows an
\* in_progress report, no report of the run follows a terminal one, the run
\* ends with its terminal report, and run() stays in its loop.
C35_OneTerminalReport ==
    /\ agent_pc # "fatal"
    /\ (wipe_ev.kind = "report" /\ InvalidPaths(wipe_ev.paths) = << >>)
           => /\ wipe_ev.prev = "" => wipe_ev.status = "in_progress"
              /\ wipe_ev.prev \in {"", "in_progress"}
              /\ wipe_ev.status \in {"completed", "failed"}
                     => wipe_ev.prev = "in_progress" /\ wipe_ev.ended
              /\ wipe_ev.status = "in_progress" => ~wipe_ev.ended

C35_Witness ==
    /\ wipe_ev.kind = "report"
    /\ wipe_ev.status = "failed"
    /\ wipe_ev.prev = "in_progress"
    /\ InvalidPaths(wipe_ev.paths) = << >>
    /\ wipe_ev.ended
    /\ agent_pc = "idle"

\* C36: in the walk of a directory path every attempt to remove a directory
\* comes after the unlink of every file that was below it; a directory whose
\* removal fails stays, is not counted, and the run goes on with its next
\* path and without an error entry for the directory.
C36_PostOrderDeletion ==
    [][wipe_ev'.ops # << >> =>
          LET ops == wipe_ev'.ops
          IN /\ \A i \in DOMAIN ops :
                    ops[i].op = "rmdir" =>
                        /\ \A f \in Under(ops[i].path, fs) \ Directories :
                               \E j \in 1..(i - 1) :
                                   ops[j].op = "unlink" /\ ops[j].path = f
                        /\ ~ops[i].ok =>
                               /\ ops[i].path \in fs'
                               /\ \A k \in 1..Len(wipe_ev'.error) :
                                      wipe_ev'.error[k] # ops[i].path
                        /\ i > 1 => ops[i].n = ops[i - 1].n
                                               + (IF ops[i].ok THEN 1 ELSE 0)
             /\ wipe_ev'.status # "failed"
             /\ ~wipe_ev'.ended]_vars

C36_Witness ==
    /\ \E i \in DOMAIN wipe_ev.ops :
           /\ wipe_ev.ops[i].op = "rmdir" /\ ~wipe_ev.ops[i].ok
           /\ \E j \in 1..(i - 1) :
                  wipe_ev.ops[j].op = "unlink" /\ wipe_ev.ops[j].ok
    /\ \E w \in BagToSet(workers) : w.pc = "delete" /\ w.idx = 2

\* C37: every wipe status report has files_deleted <= total_files and
\* progress_percentage <= 100.
C37_ProgressWithinTotal ==
    wipe_ev.kind = "report" =>
        /\ wipe_ev.files_deleted <= wipe_ev.total_files
        /\ wipe_ev.progress <= 100

\* C38: between two consecutive in_progress reports of an execute_wipe run
\* more than one item was deleted.
C38_ReportCadenceBounded ==
    (wipe_ev.kind = "report" /\ wipe_ev.status = "in_progress"
         /\ wipe_ev.prev = "in_progress")
        => wipe_ev.since > 1

\* C39: a call of get_location never leaves with an exception: whatever the
\* sources answer and whether or not config.json was read, the call ends by
\* returning a fix or None.
C39_GetLocationNeverRaises ==
    loc_ev.called => (loc_ev.done /\ ~loc_ev.raised)

\* a sequence of timeouts in which each is longer than the one before
Escalating(ts) == \A i \in 1..(Len(ts) - 1) : ts[i] < ts[i + 1]

\* C40: every call of get_location ends after a bounded number of source
\* attempts: at most 4 attempts of the satellite step, at most 3 when the
\* previous attempt was less than 300 s ago, each with a longer timeout than
\* the one before; at most one query of the WiFi-positioning service; each
\* IP service asked at most once; at most 3 attempts of the forced GPS retry.
C40_BoundedAttempts ==
    loc_ev.called =>
        /\ loc_ev.done
        /\ Len(loc_ev.gps_timeouts) = loc_ev.gps_attempts
        /\ Len(loc_ev.gps_timeouts) <= (IF loc_ev.recent THEN 3 ELSE 4)
        /\ Escalating(loc_ev.gps_timeouts)
        /\ loc_ev.wifi_queries <= 1
        /\ loc_ev.ip_queried <= IpServices
        /\ Len(loc_ev.force_timeouts) <= 3
        /\ Escalating(loc_ev.force_timeouts)

C40_Witness ==
    /\ loc_ev.called
    /\ loc_ev.recent
    /\ Len(loc_ev.gps_timeouts) = 3
    /\ loc_ev.wifi_queries = 1
    /\ loc_ev.ip_queried = IpServices
    /\ Len(loc_ev.force_timeouts) = 3

====
